---- MODULE Spec2Model ----
(***************************************************************************)
(* Model of solana-payment-program (src/solana-payment-program/src/lib.rs).*)
(*                                                                         *)
(* Account data and instruction data are sequences of cells.  One cell     *)
(* stands for one fixed-width borsh field (a Pubkey, a u32 length prefix,  *)
(* a u64) or for one byte of a String.  u64 values range over 0..U64_MAX.  *)
(* A transaction is first submitted (pending), then processed as a whole   *)
(* by process_instruction; the runtime keeps the account writes of a call  *)
(* only when the call returns Ok.                                          *)
(***************************************************************************)
EXTENDS Integers, Sequences, FiniteSets, TLC

VARIABLES
    store,        \* the data of every account the program owns, by address
    pending,      \* the transaction in flight, if any
    result,       \* the outcome of the transaction in flight: its error and its log
    before,       \* history: the store as the transaction in flight found it
    credited,     \* history: per (owner, symbol), the sum of the successful Credits
    transferred   \* history: some Transfer has succeeded

vars == <<store, pending, result, before, credited, transferred>>

(* ---------------------------- bounds ----------------------------------- *)

\* largest value of a u64 field in the model (stands for u64::MAX)
U64_MAX == 2

\* longest display name a Signup instruction carries in the model
MaxNameLen == 1

\* wallet public keys (signers and transfer recipients)
Ids == {1, 2}

\* display names: strings of the byte 'a', up to MaxNameLen long
Names == {[i \in 1..n |-> 97] : n \in 0..MaxNameLen}

\* asset symbols: the one-byte string "U"
Symbols == {<<85>>}

Amounts == 0..U64_MAX

(* ---------------------------- errors ----------------------------------- *)

Ok == "Ok"

InvalidInstructionData == "InvalidInstructionData"

NotEnoughAccountKeys == "NotEnoughAccountKeys"

MissingRequiredSignature == "MissingRequiredSignature"

InvalidArgument == "InvalidArgument"

InsufficientFunds == "InsufficientFunds"

BorshIoError == "BorshIoError"

AccountAlreadyInUse == "AccountAlreadyInUse"

ResultWithNegativeLamports == "ResultWithNegativeLamports"

(* ---------------------------- PDA seeds -------------------------------- *)

USER_SEED == "user"

BALANCE_SEED == "balance"

\* Pubkey::find_program_address: a hash of the ordered seeds, modelled as an
\* injective function of the seed list (collision resistance).
FindProgramAddress(seeds) == [pda |-> seeds]

UserPda(k) == FindProgramAddress(<<USER_SEED, k>>)

BalancePda(k, symbol) == FindProgramAddress(<<BALANCE_SEED, k, symbol>>)

Addresses == {UserPda(k) : k \in Ids} \cup {BalancePda(k, s) : k \in Ids, s \in Symbols}

(* ---------------------------- borsh codec ------------------------------ *)

NoValue == [ok |-> FALSE, val |-> <<>>, rest |-> <<>>]

Drop(s, n) == SubSeq(s, n + 1, Len(s))

\* String: u32 length prefix, then that many bytes
ReadString(s) ==
    IF Len(s) < 1 THEN NoValue
    ELSE IF Len(s) < 1 + s[1] THEN NoValue
    ELSE [ok |-> TRUE, val |-> SubSeq(s, 2, 1 + s[1]), rest |-> Drop(s, 1 + s[1])]

\* u64 and Pubkey: one fixed-width field
ReadField(s) ==
    IF Len(s) < 1 THEN NoValue
    ELSE [ok |-> TRUE, val |-> s[1], rest |-> Drop(s, 1)]

WriteString(str) == <<Len(str)>> \o str

\* UserAccount { signer: Pubkey, name: String }
EncodeUser(u) == <<u.signer>> \o WriteString(u.name)

\* BalanceAccount { owner: Pubkey, symbol: String, amount: u64 }
EncodeBalance(b) == <<b.owner>> \o WriteString(b.symbol) \o <<b.amount>>

NoBalance == [ok |-> FALSE, val |-> [owner |-> 0, symbol |-> <<>>, amount |-> 0]]

\* a decode that reads an account without data as a record with amount 0
DecodeBalanceOrDefault(data) ==
    LET o == ReadField(data)
        s == ReadString(o.rest)
        a == ReadField(s.rest)
    IN  IF o.ok /\ s.ok /\ a.ok /\ a.rest = <<>>
        THEN [ok |-> TRUE, val |-> [owner |-> o.val, symbol |-> s.val, amount |-> a.val]]
        ELSE IF data = <<>> THEN [ok |-> TRUE, val |-> NoBalance.val]
        ELSE NoBalance

\* BalanceAccount::try_from_slice: fields in order, every byte consumed
DecodeBalance(data) ==
    LET o == ReadField(data)
        s == ReadString(o.rest)
        a == ReadField(s.rest)
    IN  IF o.ok /\ s.ok /\ a.ok /\ a.rest = <<>>
        THEN [ok |-> TRUE, val |-> [owner |-> o.val, symbol |-> s.val, amount |-> a.val]]
        ELSE NoBalance

NoUser == [ok |-> FALSE, val |-> [signer |-> 0, name |-> <<>>]]

DecodeUser(data) ==
    LET o == ReadField(data)
        n == ReadString(o.rest)
    IN  IF o.ok /\ n.ok /\ n.rest = <<>>
        THEN [ok |-> TRUE, val |-> [signer |-> o.val, name |-> n.val]]
        ELSE NoUser

\* Instruction: variant index, then the variant's fields in declaration order
EncodeSignup(name) == <<0>> \o WriteString(name)

EncodeOnramp(symbol, amount) == <<1>> \o WriteString(symbol) \o <<amount>>

EncodeTransfer(symbol, amount, recipient) ==
    <<2>> \o WriteString(symbol) \o <<amount>> \o <<recipient>>

NoIx == [ok |-> FALSE, tag |-> "none", name |-> <<>>, symbol |-> <<>>, amount |-> 0, recipient |-> 0]

\* a decoder that does not require every byte to be consumed
DecodeIxLenient(data) ==
    IF Len(data) < 1 THEN NoIx
    ELSE LET str == ReadString(Tail(data))
             amt == ReadField(str.rest)
             rcp == ReadField(amt.rest)
         IN  CASE data[1] = 0 /\ str.ok ->
                    [NoIx EXCEPT !.ok = TRUE, !.tag = "Signup", !.name = str.val]
               [] data[1] = 1 /\ str.ok /\ amt.ok ->
                    [NoIx EXCEPT !.ok = TRUE, !.tag = "Onramp", !.symbol = str.val,
                                 !.amount = amt.val]
               [] data[1] = 2 /\ str.ok /\ amt.ok /\ rcp.ok ->
                    [NoIx EXCEPT !.ok = TRUE, !.tag = "Transfer", !.symbol = str.val,
                                 !.amount = amt.val, !.recipient = rcp.val]
               [] OTHER -> NoIx

\* Instruction::try_from_slice
DecodeIx(data) ==
    IF Len(data) < 1 THEN NoIx
    ELSE LET str == ReadString(Tail(data))
             amt == ReadField(str.rest)
             rcp == ReadField(amt.rest)
         IN  CASE data[1] = 0 /\ str.ok /\ str.rest = <<>> ->
                    [NoIx EXCEPT !.ok = TRUE, !.tag = "Signup", !.name = str.val]
               [] data[1] = 1 /\ str.ok /\ amt.ok /\ amt.rest = <<>> ->
                    [NoIx EXCEPT !.ok = TRUE, !.tag = "Onramp", !.symbol = str.val,
                                 !.amount = amt.val]
               [] data[1] = 2 /\ str.ok /\ amt.ok /\ rcp.ok /\ rcp.rest = <<>> ->
                    [NoIx EXCEPT !.ok = TRUE, !.tag = "Transfer", !.symbol = str.val,
                                 !.amount = amt.val, !.recipient = rcp.val]
               [] OTHER -> NoIx

\* record.serialize(&mut &mut data[..]): the encoding overwrites the front of
\* the account's buffer; a buffer that is too short takes what fits and the
\* write fails.
SerializeInto(buf, bytes) ==
    IF Len(bytes) <= Len(buf)
    THEN [ok |-> TRUE, data |-> bytes \o Drop(buf, Len(bytes))]
    ELSE [ok |-> FALSE, data |-> SubSeq(bytes, 1, Len(buf))]

(* ---------------------------- u64 arithmetic --------------------------- *)

\* addition that wraps instead of failing
wrapping_add(a, b) == [some |-> TRUE, val |-> (a + b) % (U64_MAX + 1)]

checked_add(a, b) ==
    IF a + b > U64_MAX THEN [some |-> FALSE, val |-> 0] ELSE [some |-> TRUE, val |-> a + b]

\* subtraction with the operands exchanged
checked_sub_swapped(a, b) ==
    IF a < b THEN [some |-> FALSE, val |-> 0] ELSE [some |-> TRUE, val |-> b]

checked_sub(a, b) ==
    IF a < b THEN [some |-> FALSE, val |-> 0] ELSE [some |-> TRUE, val |-> a - b]

(* ---------------------------- accounts --------------------------------- *)

\* AccountInfo as the handlers use it: the key, is_signer, and whether the
\* account holds the lamports a create_account it pays for needs.
AccountMeta(key, is_signer, funded) == [key |-> key, is_signer |-> is_signer, funded |-> funded]

SYSTEM_PROGRAM == AccountMeta([program |-> "system"], FALSE, FALSE)

\* what a handler returns: the ProgramResult, the accounts as it left them,
\* and the lines it logged with msg!
Return(err, accts) == [err |-> err, accts |-> accts, msgs |-> <<>>]

\* msg!(m) before the steps that produce r
Msg(m, r) == [r EXCEPT !.msgs = <<m>> \o @]

\* msg!(m) after the steps that produce r, reached when they returned Ok
ThenMsg(r, m) == IF r.err = Ok THEN [r EXCEPT !.msgs = @ \o <<m>>] ELSE r

data_is_empty(data) == Len(data) = 0

Zeroed(size) == [i \in 1..size |-> 0]

\* an allocation that does not refuse an address already in use
create_account_unchecked(payer, to, size, accts) ==
    IF ~payer.funded THEN Return(ResultWithNegativeLamports, accts)
    ELSE Return(Ok, [accts EXCEPT ![to] = Zeroed(size)])

\* system_instruction::create_account through invoke_signed: refuses an
\* address already in use, needs the payer's lamports, and leaves a
\* zero-filled account of the requested size.
create_account(payer, to, size, accts) ==
    IF ~data_is_empty(accts[to]) THEN Return(AccountAlreadyInUse, accts)
    ELSE IF ~payer.funded THEN Return(ResultWithNegativeLamports, accts)
    ELSE Return(Ok, [accts EXCEPT ![to] = Zeroed(size)])

\* the updated record is never written back
OverwriteSkipped(to, bytes, accts) == Return(Ok, accts)

\* record.serialize over the account at `to`
Overwrite(to, bytes, accts) ==
    LET w == SerializeInto(accts[to], bytes)
    IN  Return(IF w.ok THEN Ok ELSE BorshIoError, [accts EXCEPT ![to] = w.data])

\* create_account sized to the record, then record.serialize into it
CreateAndWrite(payer, to, bytes, accts) ==
    LET c == create_account(payer, to, Len(bytes), accts)
    IN  IF c.err # Ok THEN c ELSE Overwrite(to, bytes, c.accts)

\* the signature check left out
NotSignerUnchecked(account) == FALSE

NotSigner(account) == ~account.is_signer

\* the address comparison left out
KeyMismatchUnchecked(pda, key) == FALSE

KeyMismatch(pda, key) == pda # key

(* ---------------------------- handlers --------------------------------- *)

signup(accounts, name, accts) ==
    IF Len(accounts) < 3 THEN Return(NotEnoughAccountKeys, accts)
    ELSE LET signer == accounts[1]
             user_account == accounts[2]
             user_pda == FindProgramAddress(<<USER_SEED, signer.key>>)
             user_data == [signer |-> signer.key, name |-> name]
         IN  IF NotSigner(signer) THEN Return(MissingRequiredSignature, accts)
             ELSE IF KeyMismatch(user_pda, user_account.key)
             THEN Msg(<<"Invalid user PDA">>, Return(InvalidArgument, accts))
             ELSE ThenMsg(CreateAndWrite(signer, user_account.key, EncodeUser(user_data), accts),
                          <<"User account created successfully">>)

onramp(accounts, symbol, amount, accts) ==
    IF Len(accounts) < 4 THEN Return(NotEnoughAccountKeys, accts)
    ELSE LET signer == accounts[1]
             user_account == accounts[2]
             balance_account == accounts[3]
             user_pda == FindProgramAddress(<<USER_SEED, signer.key>>)
             balance_pda == FindProgramAddress(<<BALANCE_SEED, signer.key, symbol>>)
         IN  IF NotSigner(signer) THEN Return(MissingRequiredSignature, accts)
             ELSE IF KeyMismatch(user_pda, user_account.key)
             THEN Msg(<<"Invalid user PDA">>, Return(InvalidArgument, accts))
             ELSE IF KeyMismatch(balance_pda, balance_account.key)
             THEN Msg(<<"Invalid balance PDA">>, Return(InvalidArgument, accts))
             ELSE IF data_is_empty(accts[balance_account.key])
             THEN ThenMsg(CreateAndWrite(signer, balance_account.key,
                                         EncodeBalance([owner |-> signer.key, symbol |-> symbol,
                                                        amount |-> amount]), accts),
                          <<"Balance account created with", amount, symbol>>)
             ELSE LET balance_data == DecodeBalance(accts[balance_account.key])
                      sum == checked_add(balance_data.val.amount, amount)
                  IN  IF ~balance_data.ok THEN Return(BorshIoError, accts)
                      ELSE IF ~sum.some THEN Return(InvalidArgument, accts)
                      ELSE ThenMsg(Overwrite(balance_account.key,
                                             EncodeBalance([balance_data.val EXCEPT
                                                               !.amount = sum.val]),
                                             accts),
                                   <<"Balance updated to", sum.val, symbol>>)

\* the balance check with the comparison off by one
InsufficientBalanceOffByOne(have, amount) == have + 1 < amount

InsufficientBalance(have, amount) == have < amount

\* a receive step that records the paying signer as the owner of a new record
transfer_receive_owner_signer(signer, recipient_key, symbol, amount, recipient, accts) ==
    IF data_is_empty(accts[recipient_key])
    THEN CreateAndWrite(signer, recipient_key,
                        EncodeBalance([owner |-> signer.key, symbol |-> symbol,
                                       amount |-> amount]), accts)
    ELSE LET recipient_data == DecodeBalance(accts[recipient_key])
             sum == checked_add(recipient_data.val.amount, amount)
         IN  IF ~recipient_data.ok THEN Return(BorshIoError, accts)
             ELSE IF ~sum.some THEN Return(InvalidArgument, accts)
             ELSE Overwrite(recipient_key,
                            EncodeBalance([recipient_data.val EXCEPT !.amount = sum.val]),
                            accts)

\* a receive step that writes the recipient's updated record over the sender's
transfer_receive_into_sender(signer, recipient_key, symbol, amount, recipient, accts) ==
    IF data_is_empty(accts[recipient_key])
    THEN CreateAndWrite(signer, recipient_key,
                        EncodeBalance([owner |-> recipient, symbol |-> symbol,
                                       amount |-> amount]), accts)
    ELSE LET recipient_data == DecodeBalance(accts[recipient_key])
             sum == checked_add(recipient_data.val.amount, amount)
         IN  IF ~recipient_data.ok THEN Return(BorshIoError, accts)
             ELSE IF ~sum.some THEN Return(InvalidArgument, accts)
             ELSE Overwrite(FindProgramAddress(<<BALANCE_SEED, signer.key, symbol>>),
                            EncodeBalance([recipient_data.val EXCEPT !.amount = sum.val]),
                            accts)

\* "Add to recipient", run on the accounts as the sender's debit left them
transfer_receive(signer, recipient_key, symbol, amount, recipient, accts) ==
    IF data_is_empty(accts[recipient_key])
    THEN CreateAndWrite(signer, recipient_key,
                        EncodeBalance([owner |-> recipient, symbol |-> symbol,
                                       amount |-> amount]), accts)
    ELSE LET recipient_data == DecodeBalance(accts[recipient_key])
             sum == checked_add(recipient_data.val.amount, amount)
         IN  IF ~recipient_data.ok THEN Return(BorshIoError, accts)
             ELSE IF ~sum.some THEN Return(InvalidArgument, accts)
             ELSE Overwrite(recipient_key,
                            EncodeBalance([recipient_data.val EXCEPT !.amount = sum.val]),
                            accts)

transfer(accounts, symbol, amount, recipient, accts) ==
    IF Len(accounts) < 4 THEN Return(NotEnoughAccountKeys, accts)
    ELSE LET signer == accounts[1]
             sender_balance == accounts[2]
             recipient_balance == accounts[3]
             sender_balance_pda == FindProgramAddress(<<BALANCE_SEED, signer.key, symbol>>)
             recipient_balance_pda == FindProgramAddress(<<BALANCE_SEED, recipient, symbol>>)
         IN  IF NotSigner(signer) THEN Return(MissingRequiredSignature, accts)
             ELSE IF KeyMismatch(sender_balance_pda, sender_balance.key)
             THEN Msg(<<"Invalid sender balance PDA">>, Return(InvalidArgument, accts))
             ELSE IF KeyMismatch(recipient_balance_pda, recipient_balance.key)
             THEN Msg(<<"Invalid recipient balance PDA">>, Return(InvalidArgument, accts))
             ELSE LET sender_data == DecodeBalance(accts[sender_balance.key])
                      left == checked_sub(sender_data.val.amount, amount)
                      debit == Overwrite(sender_balance.key,
                                         EncodeBalance([sender_data.val EXCEPT
                                                           !.amount = left.val]),
                                         accts)
                  IN  IF ~sender_data.ok THEN Return(BorshIoError, accts)
                      ELSE IF InsufficientBalance(sender_data.val.amount, amount)
                      THEN Msg(<<"Insufficient balance">>, Return(InsufficientFunds, accts))
                      ELSE IF ~left.some THEN Return(InvalidArgument, accts)
                      ELSE IF debit.err # Ok THEN debit
                      ELSE ThenMsg(transfer_receive(signer, recipient_balance.key, symbol,
                                                    amount, recipient, debit.accts),
                                   <<"Transferred", amount, symbol, signer.key, recipient>>)

\* the dispatcher: decode, log the instruction, route to one handler
process_instruction(accounts, instruction_data, accts) ==
    LET ix == DecodeIx(instruction_data)
    IN  IF ~ix.ok THEN Return(InvalidInstructionData, accts)
        ELSE IF ix.tag = "Signup"
        THEN Msg(<<"Signup with name:", ix.name>>, signup(accounts, ix.name, accts))
        ELSE IF ix.tag = "Onramp"
        THEN Msg(<<"Onramp", ix.symbol, ix.amount>>,
                 onramp(accounts, ix.symbol, ix.amount, accts))
        ELSE Msg(<<"Transfer", ix.symbol, ix.amount, ix.recipient>>,
                 transfer(accounts, ix.symbol, ix.amount, ix.recipient, accts))

\* the writes of a failed call are kept
CommitAlways(accts, r) == r.accts

\* the entrypoint's contract with the runtime: the account writes of a call
\* are kept when it returns Ok and discarded when it returns an error.
Commit(accts, r) == IF r.err = Ok THEN r.accts ELSE accts

(* ---------------------------- transactions ----------------------------- *)

SignerMetas == {AccountMeta(k, sg, fd) : k \in Ids, sg \in BOOLEAN, fd \in BOOLEAN}

Pda(key) == AccountMeta(key, FALSE, FALSE)

Call(data, accounts) == [data |-> data, accounts |-> accounts]

\* every account slot of a call is filled with the derived address of some
\* identity, the signer's own or another's
SignupCalls ==
    {Call(EncodeSignup(n), <<sg, Pda(UserPda(u)), SYSTEM_PROGRAM>>) :
        n \in Names, sg \in SignerMetas, u \in Ids}

OnrampCalls ==
    {Call(EncodeOnramp(sym, a), <<sg, Pda(UserPda(u)), Pda(BalancePda(b, sym)), SYSTEM_PROGRAM>>) :
        sym \in Symbols, a \in Amounts, sg \in SignerMetas, u \in Ids, b \in Ids}

TransferCalls ==
    {Call(EncodeTransfer(sym, a, r),
          <<sg, Pda(BalancePda(sb, sym)), Pda(BalancePda(rb, sym)), SYSTEM_PROGRAM>>) :
        sym \in Symbols, a \in Amounts, r \in Ids, sg \in SignerMetas, sb \in Ids, rb \in Ids}

FullCalls == SignupCalls \cup OnrampCalls \cup TransferCalls

\* calls of a funded signer that name the derived addresses of the operation's seeds
GoodCalls ==
    {Call(EncodeSignup(n), <<AccountMeta(k, TRUE, TRUE), Pda(UserPda(k)), SYSTEM_PROGRAM>>) :
        n \in Names, k \in Ids}
    \cup
    {Call(EncodeOnramp(sym, a),
          <<AccountMeta(k, TRUE, TRUE), Pda(UserPda(k)), Pda(BalancePda(k, sym)), SYSTEM_PROGRAM>>) :
        sym \in Symbols, a \in Amounts, k \in Ids}
    \cup
    {Call(EncodeTransfer(sym, a, r),
          <<AccountMeta(k, TRUE, TRUE), Pda(BalancePda(k, sym)), Pda(BalancePda(r, sym)),
            SYSTEM_PROGRAM>>) :
        sym \in Symbols, a \in Amounts, r \in Ids, k \in Ids}

\* calls that carry fewer accounts than the handler reads
ShortCalls ==
    {Call(c.data, SubSeq(c.accounts, 1, n)) : c \in FullCalls, n \in 0..1}
    \cup
    ({Call(c.data, SubSeq(c.accounts, 1, n)) : c \in GoodCalls, n \in 2..3} \ GoodCalls)

\* instruction data that is cut short, has a trailing byte, or an unknown variant index
Mangled(data) == {SubSeq(data, 1, Len(data) - 1), data \o <<0>>, <<3>> \o Tail(data)}

MalformedCalls == UNION {{Call(m, c.accounts) : m \in Mangled(c.data)} : c \in GoodCalls}

\* no outcome yet
NoResult == [err |-> "None", msgs |-> <<>>]

Init ==
    /\ store = [a \in Addresses |-> <<>>]
    /\ before = store
    /\ pending = <<>>
    /\ result = NoResult
    /\ credited = [k \in Ids, sym \in Symbols |-> 0]
    /\ transferred = FALSE

\* bookkeeping for the sum of the Credits: it is kept until the first Transfer
History(c, r) ==
    LET ix == DecodeIx(c.data)
    IN  /\ transferred' = (transferred \/ (r.err = Ok /\ ix.tag = "Transfer"))
        /\ credited' =
              IF transferred' THEN [k \in Ids, sym \in Symbols |-> 0]
              ELSE IF r.err = Ok /\ ix.tag = "Onramp"
              THEN [credited EXCEPT ![c.accounts[1].key, ix.symbol] = @ + ix.amount]
              ELSE credited

\* a client sends a transaction
Submit(calls) ==
    /\ pending = <<>>
    /\ \E c \in calls : pending' = <<c>>
    /\ UNCHANGED <<store, before, result, credited, transferred>>

\* the runtime executes the transaction in flight
Process ==
    /\ pending # <<>>
    /\ result = NoResult
    /\ LET c == Head(pending)
           r == process_instruction(c.accounts, c.data, store)
       IN  /\ store' = Commit(store, r)
           /\ result' = [err |-> r.err, msgs |-> r.msgs]
           /\ History(c, r)
    /\ UNCHANGED <<pending, before>>

\* the client receives the outcome
Confirm ==
    /\ pending # <<>>
    /\ result # NoResult
    /\ pending' = <<>>
    /\ result' = NoResult
    /\ before' = store
    /\ UNCHANGED <<store, credited, transferred>>

Next ==
    \/ Submit(FullCalls)
    \/ Submit(ShortCalls)
    \/ Submit(MalformedCalls)
    \/ Process
    \/ Confirm

Spec == Init /\ [][Next]_vars

(* ---------------------------- reading a state -------------------------- *)

\* the transaction in flight has been executed and its outcome is known
Processed == pending # <<>> /\ result # NoResult

Cur == Head(pending)

Signer == Cur.accounts[1]

\* the transaction in flight carries this instruction and all of its accounts
IsSignup(name) == Cur.data = EncodeSignup(name) /\ Len(Cur.accounts) = 3

IsOnramp(symbol, amount) == Cur.data = EncodeOnramp(symbol, amount) /\ Len(Cur.accounts) = 4

IsTransfer(symbol, amount, recipient) ==
    Cur.data = EncodeTransfer(symbol, amount, recipient) /\ Len(Cur.accounts) = 4

Present(accts, address) == accts[address] # <<>>

\* the amount field of a Balance Record: its last field
AmountAt(accts, address) == accts[address][Len(accts[address])]

\* an Onramp by a signing k that names k's own derived addresses
GoodOnramp(k, symbol, amount) ==
    /\ IsOnramp(symbol, amount)
    /\ Signer.key = k /\ Signer.is_signer
    /\ Cur.accounts[2].key = UserPda(k)
    /\ Cur.accounts[3].key = BalancePda(k, symbol)

\* a Transfer by a signing k that names the derived addresses of k and of the recipient
GoodTransfer(k, symbol, amount, recipient) ==
    /\ IsTransfer(symbol, amount, recipient)
    /\ Signer.key = k /\ Signer.is_signer
    /\ Cur.accounts[2].key = BalancePda(k, symbol)
    /\ Cur.accounts[3].key = BalancePda(recipient, symbol)

(* ---------------------------- storage-program -------------------------- *)
(* The two-number store of storage-program/src/lib.rs: one ResultAccount    *)
(* per keypair account, written by Initialize and Update.  Its account_size *)
(* is taken from the encoding of the record the Initialize arm builds; the  *)
(* source names that record at line 47, above its `let` at line 66, and the *)
(* encoded size of three u64 fields does not depend on their values.        *)

PrivilegeEscalation == "PrivilegeEscalation"

\* the keypair accounts a client may pass as result_account
ResultKeys == {[keypair |-> n] : n \in {1, 2}}

\* ResultAccount { num1: u64, num2: u64, result: u64 }
EncodeResult(r) == <<r.num1, r.num2, r.result>>

NoResultAccount == [ok |-> FALSE, val |-> [num1 |-> 0, num2 |-> 0, result |-> 0]]

\* ResultAccount::try_from_slice: fields in order, every byte consumed
DecodeResult(data) ==
    LET a == ReadField(data)
        b == ReadField(a.rest)
        c == ReadField(b.rest)
    IN  IF a.ok /\ b.ok /\ c.ok /\ c.rest = <<>>
        THEN [ok |-> TRUE, val |-> [num1 |-> a.val, num2 |-> b.val, result |-> c.val]]
        ELSE NoResultAccount

\* ResultInstruction: variant index, then num1 and num2
EncodeInitialize(num1, num2) == <<0, num1, num2>>

EncodeUpdate(num1, num2) == <<1, num1, num2>>

NoResultIx == [ok |-> FALSE, tag |-> "none", num1 |-> 0, num2 |-> 0]

\* ResultInstruction::try_from_slice
DecodeResultIx(data) ==
    IF Len(data) < 1 THEN NoResultIx
    ELSE LET a == ReadField(Tail(data))
             b == ReadField(a.rest)
         IN  IF data[1] \in {0, 1} /\ a.ok /\ b.ok /\ b.rest = <<>>
             THEN [ok |-> TRUE, tag |-> IF data[1] = 0 THEN "Initialize" ELSE "Update",
                   num1 |-> a.val, num2 |-> b.val]
             ELSE NoResultIx

\* invoke(create_account): without seeds, the payer and the new account must
\* both have signed the transaction before the system program runs
invoke_create_account(payer, to, size, accts) ==
    IF ~payer.is_signer \/ ~to.is_signer THEN Return(PrivilegeEscalation, accts)
    ELSE create_account(payer, to.key, size, accts)

\* the arm ResultInstruction::Initialize { num1, num2 }
Initialize(payer, result_account, num1, num2, accts) ==
    LET sum == checked_add(num1, num2)
        result_account_data == [num1 |-> num1, num2 |-> num2, result |-> sum.val]
        account_size == Len(EncodeResult(result_account_data))
        created == invoke_create_account(payer, result_account, account_size, accts)
    IN  IF ~sum.some THEN Return(InvalidArgument, accts)
        ELSE Msg(<<"Initializing", num1, num2, sum.val>>,
                 IF created.err # Ok THEN created
                 ELSE Overwrite(result_account.key, EncodeResult(result_account_data),
                                created.accts))

\* the arm ResultInstruction::Update { num1, num2 }
Update(result_account, num1, num2, accts) ==
    LET sum == checked_add(num1, num2)
        result_account_data == DecodeResult(accts[result_account.key])
    IN  IF ~sum.some THEN Return(InvalidArgument, accts)
        ELSE Msg(<<"Updating", num1, num2, sum.val>>,
                 IF ~result_account_data.ok THEN Return(BorshIoError, accts)
                 ELSE Overwrite(result_account.key,
                                EncodeResult([result_account_data.val EXCEPT
                                                 !.num1 = num1, !.num2 = num2,
                                                 !.result = sum.val]),
                                accts))

\* storage-program's process_instruction: exactly three accounts, then the
\* instruction is decoded and matched
storage_process_instruction(accounts, instruction_data, accts) ==
    IF Len(accounts) # 3 THEN Return(NotEnoughAccountKeys, accts)
    ELSE LET payer == accounts[1]
             result_account == accounts[2]
             ix == DecodeResultIx(instruction_data)
         IN  IF ~ix.ok THEN Return(BorshIoError, accts)
             ELSE IF ix.tag = "Initialize"
             THEN Initialize(payer, result_account, ix.num1, ix.num2, accts)
             ELSE Update(result_account, ix.num1, ix.num2, accts)

ResultMetas == {AccountMeta(k, sg, FALSE) : k \in ResultKeys, sg \in BOOLEAN}

StorageCalls ==
    {Call(d, <<p, ra, SYSTEM_PROGRAM>>) :
        d \in {EncodeInitialize(a, b) : a \in Amounts, b \in Amounts}
              \cup {EncodeUpdate(a, b) : a \in Amounts, b \in Amounts},
        p \in SignerMetas, ra \in ResultMetas}

\* calls of a funded payer with the new account's signature
GoodStorageCalls == {c \in StorageCalls : \A i \in 1..2 : c.accounts[i].is_signer
                                          /\ c.accounts[1].funded}

\* calls that carry fewer or more than the three accounts
MiscountedStorageCalls ==
    {Call(c.data, SubSeq(c.accounts, 1, n)) : c \in GoodStorageCalls, n \in 0..2}
    \cup {Call(c.data, c.accounts \o <<SYSTEM_PROGRAM>>) : c \in GoodStorageCalls}

MalformedStorageCalls ==
    UNION {{Call(m, c.accounts) : m \in Mangled(c.data)} : c \in GoodStorageCalls}

StorageInit ==
    /\ store = [a \in ResultKeys |-> <<>>]
    /\ before = store
    /\ pending = <<>>
    /\ result = NoResult
    /\ credited = [k \in Ids, sym \in Symbols |-> 0]
    /\ transferred = FALSE

\* the runtime executes the transaction in flight against the storage program
StorageProcess ==
    /\ pending # <<>>
    /\ result = NoResult
    /\ LET c == Head(pending)
           r == storage_process_instruction(c.accounts, c.data, store)
       IN  /\ store' = Commit(store, r)
           /\ result' = [err |-> r.err, msgs |-> r.msgs]
    /\ UNCHANGED <<pending, before, credited, transferred>>

StorageNext ==
    \/ Submit(StorageCalls)
    \/ Submit(MiscountedStorageCalls)
    \/ Submit(MalformedStorageCalls)
    \/ StorageProcess
    \/ Confirm

StorageSpec == StorageInit /\ [][StorageNext]_vars

(* ---------------------------- claims ----------------------------------- *)

\* C1: a Transfer (signed, addresses as derived) whose sender Balance Record is
\* Present with less than the amount fails with InsufficientFunds, and the
\* sender's and the recipient's records, like every other, are as before the call.
C1_InsufficientFunds ==
    \A k \in Ids, r \in Ids, sym \in Symbols, a \in Amounts :
        (/\ Processed
         /\ GoodTransfer(k, sym, a, r)
         /\ Present(before, BalancePda(k, sym))
         /\ AmountAt(before, BalancePda(k, sym)) < a)
        => /\ result.err = InsufficientFunds
           /\ store[BalancePda(k, sym)] = before[BalancePda(k, sym)]
           /\ store[BalancePda(r, sym)] = before[BalancePda(r, sym)]
           /\ store = before

\* C1 happens: identity 1, holding 1, was asked to send 2 to identity 2, who holds no record
C1_Witness ==
    /\ Processed
    /\ GoodTransfer(1, <<85>>, 2, 2)
    /\ before[BalancePda(1, <<85>>)] = EncodeBalance([owner |-> 1, symbol |-> <<85>>, amount |-> 1])
    /\ ~Present(before, BalancePda(2, <<85>>))
    /\ result.err = InsufficientFunds

\* C2: an addition that would pass U64_MAX fails and writes nothing.  A Credit
\* (signed, addresses as derived) on a Present record holding e with e + amount
\* > U64_MAX, and a Transfer whose receive step finds a Present recipient record
\* holding f with f + amount > U64_MAX, return the overflow error (the code's
\* InvalidArgument) and leave every record as before the call.  The receive step
\* reads the record after the debit: f is the stored amount for another
\* identity's record and the debited amount when the recipient is the signer.
C2_OverflowRejected ==
    \A k \in Ids, r \in Ids, sym \in Symbols, a \in Amounts :
        /\ (/\ Processed
            /\ GoodOnramp(k, sym, a)
            /\ Present(before, BalancePda(k, sym))
            /\ AmountAt(before, BalancePda(k, sym)) + a > U64_MAX)
           => (result.err = InvalidArgument /\ store = before)
        /\ (/\ Processed
            /\ GoodTransfer(k, sym, a, r)
            /\ Present(before, BalancePda(k, sym))
            /\ AmountAt(before, BalancePda(k, sym)) >= a
            /\ Present(before, BalancePda(r, sym))
            /\ (IF r = k THEN AmountAt(before, BalancePda(k, sym)) - a
                         ELSE AmountAt(before, BalancePda(r, sym))) + a > U64_MAX)
           => (result.err = InvalidArgument /\ store = before)

\* C2 happens: identity 1 sent 1 to identity 2, whose record already held U64_MAX
C2_Witness ==
    /\ Processed
    /\ GoodTransfer(1, <<85>>, 1, 2)
    /\ Present(before, BalancePda(1, <<85>>))
    /\ AmountAt(before, BalancePda(1, <<85>>)) >= 1
    /\ before[BalancePda(2, <<85>>)] =
           EncodeBalance([owner |-> 2, symbol |-> <<85>>, amount |-> U64_MAX])
    /\ result.err = InvalidArgument
    /\ store = before

\* some account slot of the call in flight holds another address than the one
\* derived from the call's seeds
AddressDiffers ==
    \/ \E n \in Names :
          IsSignup(n) /\ Cur.accounts[2].key # UserPda(Signer.key)
    \/ \E sym \in Symbols, a \in Amounts :
          /\ IsOnramp(sym, a)
          /\ \/ Cur.accounts[2].key # UserPda(Signer.key)
             \/ Cur.accounts[3].key # BalancePda(Signer.key, sym)
    \/ \E sym \in Symbols, a \in Amounts, r \in Ids :
          /\ IsTransfer(sym, a, r)
          /\ \/ Cur.accounts[2].key # BalancePda(Signer.key, sym)
             \/ Cur.accounts[3].key # BalancePda(r, sym)

\* C3: a signed RegisterIdentity, Credit or Transfer any of whose supplied target
\* addresses differs from the re-derived one fails with the address-mismatch
\* error (the code's InvalidArgument) after logging the mismatch, and no record
\* is created or changed, whatever the account at the supplied address holds.
C3_AddressMismatch ==
    (Processed /\ AddressDiffers /\ Signer.is_signer)
    => /\ result.err = InvalidArgument
       /\ Len(result.msgs) = 2
       /\ store = before

\* C3 happens: identity 1 named identity 2's Balance Record, a valid record,
\* as the sender record of its Transfer
C3_Witness ==
    /\ Processed
    /\ IsTransfer(<<85>>, 1, 2)
    /\ Signer.key = 1 /\ Signer.is_signer
    /\ Cur.accounts[2].key = BalancePda(2, <<85>>)
    /\ Cur.accounts[3].key = BalancePda(2, <<85>>)
    /\ before[BalancePda(2, <<85>>)] = EncodeBalance([owner |-> 2, symbol |-> <<85>>, amount |-> 2])
    /\ result.err = InvalidArgument
    /\ store = before

\* the call in flight carries a decodable instruction and all of its accounts
FullCall ==
    \/ \E n \in Names : IsSignup(n)
    \/ \E sym \in Symbols, a \in Amounts : IsOnramp(sym, a)
    \/ \E sym \in Symbols, a \in Amounts, r \in Ids : IsTransfer(sym, a, r)

\* C4: a RegisterIdentity, Credit or Transfer (with all of its accounts) whose
\* signer account did not sign fails with MissingRequiredSignature before any
\* address is compared (no mismatch is logged, also when the addresses differ),
\* and the store is unchanged.
C4_MissingSignature ==
    (Processed /\ FullCall /\ ~Signer.is_signer)
    => /\ result.err = MissingRequiredSignature
       /\ Len(result.msgs) = 1
       /\ store = before

\* C4 happens: an unsigned Transfer that also names the wrong sender record
C4_Witness ==
    /\ Processed
    /\ IsTransfer(<<85>>, 1, 2)
    /\ Signer.key = 1 /\ ~Signer.is_signer
    /\ Cur.accounts[2].key = BalancePda(2, <<85>>)
    /\ Present(before, BalancePda(2, <<85>>))
    /\ result.err = MissingRequiredSignature

\* a Balance Record with its amount field replaced
WithAmount(data, amount) == [data EXCEPT ![Len(data)] = amount]

\* C5: after a successful Transfer of a by k to another identity r, the sender
\* held s >= a before, the sender's record holds s - a, and the recipient's
\* record is {owner: r, symbol, amount: a} if it was Absent and holds f + a if it
\* was Present with f.
C5_TransferMoves ==
    \A k \in Ids, r \in Ids, sym \in Symbols, a \in Amounts :
        (Processed /\ IsTransfer(sym, a, r) /\ Signer.key = k /\ r # k /\ result.err = Ok)
        => LET sb == BalancePda(k, sym)
               rb == BalancePda(r, sym)
           IN  /\ Present(before, sb)
               /\ AmountAt(before, sb) >= a
               /\ store[sb] = WithAmount(before[sb], AmountAt(before, sb) - a)
               /\ IF Present(before, rb)
                  THEN store[rb] = WithAmount(before[rb], AmountAt(before, rb) + a)
                  ELSE store[rb] = EncodeBalance([owner |-> r, symbol |-> sym, amount |-> a])

\* C5 happens: identity 1, holding 2, sent 1 to identity 2, who had no record
C5_Witness ==
    /\ Processed
    /\ GoodTransfer(1, <<85>>, 1, 2)
    /\ Present(before, BalancePda(1, <<85>>))
    /\ AmountAt(before, BalancePda(1, <<85>>)) = 2
    /\ ~Present(before, BalancePda(2, <<85>>))
    /\ result.err = Ok
    /\ AmountAt(store, BalancePda(1, <<85>>)) = 1
    /\ AmountAt(store, BalancePda(2, <<85>>)) = 1

\* C6: a successful Credit of a by k creates {owner: k, symbol, amount: a} when
\* the record was Absent and sets the amount to e + a when it was Present with
\* e; and as long as no Transfer has succeeded, every Balance Record holds the
\* sum of the amounts credited to it (and is Absent only if nothing was).
C6_CreditAdds ==
    /\ \A k \in Ids, sym \in Symbols, a \in Amounts :
          (Processed /\ IsOnramp(sym, a) /\ Signer.key = k /\ result.err = Ok)
          => LET b == BalancePda(k, sym)
             IN  IF Present(before, b)
                 THEN store[b] = WithAmount(before[b], AmountAt(before, b) + a)
                 ELSE store[b] = EncodeBalance([owner |-> k, symbol |-> sym, amount |-> a])
    /\ ~transferred =>
          \A k \in Ids, sym \in Symbols :
              IF Present(store, BalancePda(k, sym))
              THEN store[BalancePda(k, sym)] =
                       EncodeBalance([owner |-> k, symbol |-> sym, amount |-> credited[k, sym]])
              ELSE credited[k, sym] = 0

\* C6 happens: identity 1 was credited 1 on a record that held 1 from an earlier Credit
C6_Witness ==
    /\ Processed
    /\ GoodOnramp(1, <<85>>, 1)
    /\ before[BalancePda(1, <<85>>)] = EncodeBalance([owner |-> 1, symbol |-> <<85>>, amount |-> 1])
    /\ result.err = Ok
    /\ store[BalancePda(1, <<85>>)] = EncodeBalance([owner |-> 1, symbol |-> <<85>>, amount |-> 2])
    /\ ~transferred
    /\ credited[1, <<85>>] = 2

\* C7: a RegisterIdentity (signed, address as derived) for a signer whose
\* Identity Record already holds data fails with the already-exists error (the
\* allocation's AccountAlreadyInUse), whatever name it claims, and the
\* Identity Record keeps its content.
C7_SecondSignupFails ==
    \A n \in Names :
        (/\ Processed
         /\ IsSignup(n)
         /\ Signer.is_signer
         /\ Cur.accounts[2].key = UserPda(Signer.key)
         /\ Present(before, UserPda(Signer.key)))
        => /\ result.err = AccountAlreadyInUse
           /\ store[UserPda(Signer.key)] = before[UserPda(Signer.key)]
           /\ store = before

\* C7 happens: identity 1, registered under the empty name, signed up again as "a"
C7_Witness ==
    /\ Processed
    /\ IsSignup(<<97>>)
    /\ Signer.key = 1 /\ Signer.is_signer
    /\ Cur.accounts[2].key = UserPda(1)
    /\ before[UserPda(1)] = EncodeUser([signer |-> 1, name |-> <<>>])
    /\ result.err = AccountAlreadyInUse
    /\ store[UserPda(1)] = EncodeUser([signer |-> 1, name |-> <<>>])

\* C8: a Credit by a signer whose Identity Record is Absent fails and creates or
\* changes no Balance Record.
C8_CreditNeedsIdentity ==
    \A k \in Ids, sym \in Symbols, a \in Amounts :
        (Processed /\ GoodOnramp(k, sym, a) /\ ~Present(before, UserPda(k)))
        => (result.err # Ok /\ store = before)

\* C9: when the receive step of a Transfer fails after the sender's debit was
\* written (overflow on a Present recipient, or a failed allocation for an
\* Absent one), the call fails and the sender's record holds its amount of
\* before the call; and no failed call leaves any of its writes in the store.
C9_FailedReceiveRollsBack ==
    /\ \A k \in Ids, r \in Ids, sym \in Symbols, a \in Amounts :
          LET sb == BalancePda(k, sym)
              rb == BalancePda(r, sym)
          IN  (/\ Processed
               /\ GoodTransfer(k, sym, a, r)
               /\ Present(before, sb)
               /\ AmountAt(before, sb) >= a
               /\ \/ r # k /\ Present(before, rb) /\ AmountAt(before, rb) + a > U64_MAX
                  \/ ~Present(before, rb) /\ ~Signer.funded)
              => /\ process_instruction(Cur.accounts, Cur.data, before).accts[sb]
                        = WithAmount(before[sb], AmountAt(before, sb) - a)
                 /\ result.err # Ok
                 /\ store[sb] = before[sb]
                 /\ store = before
    /\ (Processed /\ result.err # Ok) => store = before

\* C9 happens: identity 1, holding 2, sent 1 to identity 2, who had no record,
\* and the allocation of that record failed after the debit
C9_Witness ==
    /\ Processed
    /\ GoodTransfer(1, <<85>>, 1, 2)
    /\ ~Signer.funded
    /\ before[BalancePda(1, <<85>>)] = EncodeBalance([owner |-> 1, symbol |-> <<85>>, amount |-> 2])
    /\ ~Present(before, BalancePda(2, <<85>>))
    /\ process_instruction(Cur.accounts, Cur.data, before).accts[BalancePda(1, <<85>>)]
           = EncodeBalance([owner |-> 1, symbol |-> <<85>>, amount |-> 1])
    /\ result.err = ResultWithNegativeLamports
    /\ store = before

\* the encodings of the three instructions
ValidData ==
    {EncodeSignup(n) : n \in Names}
    \cup {EncodeOnramp(sym, a) : sym \in Symbols, a \in Amounts}
    \cup {EncodeTransfer(sym, a, r) : sym \in Symbols, a \in Amounts, r \in Ids}

\* C10: instruction data with an unknown tag or a malformed payload fails with
\* the decode error (the code's InvalidInstructionData) before the dispatcher
\* logs or routes anything, and no record is created or changed.
C10_DecodeErrorFirst ==
    (Processed /\ Cur.data \notin ValidData)
    => /\ result.err = InvalidInstructionData
       /\ result.msgs = <<>>
       /\ store = before

\* C10 happens: a Credit of a registered, funded signer with a trailing byte
\* after its payload
C10_Witness ==
    /\ Processed
    /\ Cur.data = EncodeOnramp(<<85>>, 1) \o <<0>>
    /\ Signer.key = 1 /\ Signer.is_signer /\ Signer.funded
    /\ Cur.accounts[3].key = BalancePda(1, <<85>>)
    /\ Present(before, UserPda(1))
    /\ result.err = InvalidInstructionData
    /\ store = before

\* C11: every account at the address derived from ("balance", o, s) that holds
\* data holds a Balance Record with owner = o and symbol = s, so each (owner,
\* symbol) pair has at most one Balance Record, whether a Credit or the receive
\* step of a Transfer created it.
C11_BalanceRecordAtItsAddress ==
    \A o \in Ids, sym \in Symbols :
        Present(store, BalancePda(o, sym))
        => /\ DecodeBalance(store[BalancePda(o, sym)]).ok
           /\ DecodeBalance(store[BalancePda(o, sym)]).val.owner = o
           /\ DecodeBalance(store[BalancePda(o, sym)]).val.symbol = sym

\* C11 happens: identity 2's record was created by the receive step of a
\* Transfer that identity 1 signed and paid for
C11_Witness ==
    /\ Processed
    /\ GoodTransfer(1, <<85>>, 1, 2)
    /\ ~Present(before, BalancePda(2, <<85>>))
    /\ result.err = Ok
    /\ DecodeBalance(store[BalancePda(2, <<85>>)]).val.owner = 2
    /\ DecodeBalance(store[BalancePda(2, <<85>>)]).val.symbol = <<85>>
    /\ DecodeBalance(store[BalancePda(1, <<85>>)]).val.owner = 1

\* C12: every account at the address derived from ("user", k) that holds data
\* holds an Identity Record whose stored signer is k.
C12_IdentityRecordAtItsAddress ==
    \A k \in Ids :
        Present(store, UserPda(k))
        => /\ DecodeUser(store[UserPda(k)]).ok
           /\ DecodeUser(store[UserPda(k)]).val.signer = k

\* C12 happens: identity 2 has just signed up as "a"
C12_Witness ==
    /\ Processed
    /\ IsSignup(<<97>>)
    /\ Signer.key = 2
    /\ ~Present(before, UserPda(2))
    /\ result.err = Ok
    /\ DecodeUser(store[UserPda(2)]).val = [signer |-> 2, name |-> <<97>>]

\* C13: an Identity Record that exists before a call is, after the call, the
\* same record at the same address: no RegisterIdentity, Credit or Transfer,
\* successful or failed, by any signer, changes its signer or name or removes it.
C13_IdentityRecordFrozen ==
    \A k \in Ids :
        Present(before, UserPda(k)) => store[UserPda(k)] = before[UserPda(k)]

\* C13 happens: identity 2 signs up successfully while identity 1's record
\* exists, and identity 1's record is as it was
C13_Witness ==
    /\ Processed
    /\ IsSignup(<<97>>)
    /\ Signer.key = 2
    /\ result.err = Ok
    /\ Present(before, UserPda(1))
    /\ ~Present(before, UserPda(2))
    /\ Present(store, UserPda(2))
    /\ store[UserPda(1)] = before[UserPda(1)]

\* C14: the amount of the Balance Record of (o, s) is lower after a call than
\* before it (or the record is gone) only when the call is a successful
\* Transfer of symbol s that o itself signed; no call of another signer lowers it.
C14_OnlyOwnerDebits ==
    \A o \in Ids, sym \in Symbols :
        ( /\ Processed
          /\ Present(before, BalancePda(o, sym))
          /\ \/ ~Present(store, BalancePda(o, sym))
             \/ AmountAt(store, BalancePda(o, sym)) < AmountAt(before, BalancePda(o, sym)) )
        => /\ result.err = Ok
           /\ \E a \in Amounts, r \in Ids : IsTransfer(sym, a, r)
           /\ Signer.key = o
           /\ Signer.is_signer

\* C14 happens: identity 2 signs a Transfer to identity 1 that lowers the
\* record of 2 and raises the record of 1
C14_Witness ==
    /\ Processed
    /\ GoodTransfer(2, <<85>>, 1, 1)
    /\ result.err = Ok
    /\ Present(before, BalancePda(2, <<85>>))
    /\ Present(before, BalancePda(1, <<85>>))
    /\ AmountAt(store, BalancePda(2, <<85>>)) < AmountAt(before, BalancePda(2, <<85>>))
    /\ AmountAt(store, BalancePda(1, <<85>>)) > AmountAt(before, BalancePda(1, <<85>>))

\* every field of a Balance Record but its amount (the last one)
ButAmount(data) == SubSeq(data, 1, Len(data) - 1)

BalanceAddresses == {BalancePda(k, sym) : k \in Ids, sym \in Symbols}

\* C15: a call leaves every existing Balance Record with its owner, its symbol
\* and its encoded size, whatever it does to the amount; and it leaves every
\* Balance Record unchanged but the signer's own of that symbol (Credit), or
\* the signer's and the recipient's of that symbol (Transfer).
C15_UpdateChangesAmountOnly ==
    Processed =>
        /\ \A b \in BalanceAddresses :
              Present(before, b)
              => /\ Len(store[b]) = Len(before[b])
                 /\ ButAmount(store[b]) = ButAmount(before[b])
        /\ \A sym \in Symbols, a \in Amounts :
              IsOnramp(sym, a)
              => \A b \in BalanceAddresses \ {BalancePda(Signer.key, sym)} :
                    store[b] = before[b]
        /\ \A sym \in Symbols, a \in Amounts, r \in Ids :
              IsTransfer(sym, a, r)
              => \A b \in BalanceAddresses \ {BalancePda(Signer.key, sym), BalancePda(r, sym)} :
                    store[b] = before[b]

\* C15 happens: a Transfer from 1 to 2 updates two existing records, and both
\* amounts change
C15_Witness ==
    /\ Processed
    /\ GoodTransfer(1, <<85>>, 1, 2)
    /\ result.err = Ok
    /\ Present(before, BalancePda(1, <<85>>))
    /\ Present(before, BalancePda(2, <<85>>))
    /\ AmountAt(store, BalancePda(1, <<85>>)) = AmountAt(before, BalancePda(1, <<85>>)) - 1
    /\ AmountAt(store, BalancePda(2, <<85>>)) = AmountAt(before, BalancePda(2, <<85>>)) + 1
    /\ ButAmount(store[BalancePda(2, <<85>>)]) = <<2, 1, 85>>

\* C15 happens for a Credit too: identity 1's existing record is credited
\* while identity 2's record exists and stays as it was
C15_WitnessCredit ==
    /\ Processed
    /\ GoodOnramp(1, <<85>>, 1)
    /\ result.err = Ok
    /\ Present(before, BalancePda(1, <<85>>))
    /\ Present(before, BalancePda(2, <<85>>))
    /\ store[BalancePda(1, <<85>>)] # before[BalancePda(1, <<85>>)]

RECURSIVE SumAmounts(_, _, _)
SumAmounts(owners, accts, symbol) ==
    IF owners = {} THEN 0
    ELSE LET o == CHOOSE k \in owners : TRUE
             b == BalancePda(o, symbol)
         IN  (IF Present(accts, b) THEN AmountAt(accts, b) ELSE 0)
             + SumAmounts(owners \ {o}, accts, symbol)

\* the total of a symbol: the sum of the amounts of its Balance Records
Total(accts, symbol) == SumAmounts(Ids, accts, symbol)

\* C16: a successful Credit of amount a of symbol s raises the total of s by
\* exactly a; every other call, a successful Transfer to any recipient
\* included, leaves the total of every symbol as it was; and a successful
\* Transfer to the signer itself leaves the signer's record as it was.
C16_TransferConserves ==
    Processed =>
        \A sym \in Symbols :
            /\ \A a \in Amounts :
                  (IsOnramp(sym, a) /\ result.err = Ok)
                  => Total(store, sym) = Total(before, sym) + a
            /\ ~(\E a \in Amounts : IsOnramp(sym, a) /\ result.err = Ok)
               => Total(store, sym) = Total(before, sym)
            /\ \A a \in Amounts, k \in Ids :
                  (GoodTransfer(k, sym, a, k) /\ result.err = Ok)
                  => store[BalancePda(k, sym)] = before[BalancePda(k, sym)]

\* C16 happens: identity 1 successfully transfers 1 to itself out of 2
C16_Witness ==
    /\ Processed
    /\ GoodTransfer(1, <<85>>, 1, 1)
    /\ result.err = Ok
    /\ Present(before, BalancePda(1, <<85>>))
    /\ AmountAt(before, BalancePda(1, <<85>>)) = 2
    /\ AmountAt(store, BalancePda(1, <<85>>)) = 2
    /\ Total(store, <<85>>) = Total(before, <<85>>)

\* C16 happens between two identities: a successful Transfer moves 1 from
\* identity 1 to identity 2 and the total stays
C16_WitnessOther ==
    /\ Processed
    /\ GoodTransfer(1, <<85>>, 1, 2)
    /\ result.err = Ok
    /\ AmountAt(store, BalancePda(1, <<85>>)) # AmountAt(before, BalancePda(1, <<85>>))
    /\ Total(store, <<85>>) = Total(before, <<85>>)
    /\ Total(store, <<85>>) > 0

\* C17: a Transfer (signed, addresses as derived) whose sender has no Balance
\* Record fails at the decode of the sender's record, for every amount, 0
\* included, and no account is created or changed: not the sender's record,
\* not the recipient's.
C17_AbsentSenderFails ==
    \A k \in Ids, sym \in Symbols, a \in Amounts, r \in Ids :
        ( /\ Processed
          /\ GoodTransfer(k, sym, a, r)
          /\ ~Present(before, BalancePda(k, sym)) )
        => /\ result.err = BorshIoError
           /\ store = before

\* C17 happens: identity 1, without a record, transfers 0 to identity 2, who
\* has none either
C17_Witness ==
    /\ Processed
    /\ GoodTransfer(1, <<85>>, 0, 2)
    /\ Signer.funded
    /\ ~Present(before, BalancePda(1, <<85>>))
    /\ ~Present(before, BalancePda(2, <<85>>))
    /\ result.err = BorshIoError
    /\ ~Present(store, BalancePda(1, <<85>>))
    /\ ~Present(store, BalancePda(2, <<85>>))

C18_WitnessOverflow ==
    /\ Processed
    /\ Cur.data = EncodeUpdate(U64_MAX, 1)
    /\ Len(Cur.accounts) = 3
    /\ Present(before, Cur.accounts[2].key)
    /\ result.err = InvalidArgument
    /\ store = before

\* C18 happens for an Initialize that overflows: no record is created
C18_WitnessNoRecord ==
    /\ Processed
    /\ Cur.data = EncodeInitialize(1, U64_MAX)
    /\ Len(Cur.accounts) = 3
    /\ Cur.accounts[1].is_signer /\ Cur.accounts[1].funded /\ Cur.accounts[2].is_signer
    /\ result.err = InvalidArgument
    /\ ~Present(store, Cur.accounts[2].key)

====
